---- MODULE Spec2Model ----
(***************************************************************************)
(* CodiCode agent loop: AgentController.execute_task over an LLM gateway   *)
(* and a ToolRegistry, with the embedded tool-call parser and the          *)
(* completion heuristics computed on the characters of the response text.  *)
(***************************************************************************)
EXTENDS Integers, Sequences, FiniteSets, TLC

(***************************************************************************)
(* Bounds of the model.                                                    *)
(***************************************************************************)
\* max_steps ranges over 0..MaxStepsBound
MaxStepsBound == 2
\* max_tool_errors ranges over 0..MaxErrorsBound
MaxErrorsBound == 2
\* a run starts only if the audit log can hold all its dispatches
MaxLog == 3

(***************************************************************************)
(* Text: a Python str is a sequence of one-character strings.              *)
(***************************************************************************)
UpperToLower ==
    [c \in {"A","B","C","D","E","F","G","H","I","J","K","L","M",
            "N","O","P","Q","R","S","T","U","V","W","X","Y","Z"} |->
       CASE c = "A" -> "a" [] c = "B" -> "b" [] c = "C" -> "c" [] c = "D" -> "d"
         [] c = "E" -> "e" [] c = "F" -> "f" [] c = "G" -> "g" [] c = "H" -> "h"
         [] c = "I" -> "i" [] c = "J" -> "j" [] c = "K" -> "k" [] c = "L" -> "l"
         [] c = "M" -> "m" [] c = "N" -> "n" [] c = "O" -> "o" [] c = "P" -> "p"
         [] c = "Q" -> "q" [] c = "R" -> "r" [] c = "S" -> "s" [] c = "T" -> "t"
         [] c = "U" -> "u" [] c = "V" -> "v" [] c = "W" -> "w" [] c = "X" -> "x"
         [] c = "Y" -> "y" [] c = "Z" -> "z"]

\* str.lower()
Lower(s) ==
    [i \in 1..Len(s) |-> IF s[i] \in DOMAIN UpperToLower THEN UpperToLower[s[i]] ELSE s[i]]

\* the positions at which p occurs in s
Occurrences(s, p) ==
    {i \in 1..(Len(s) - Len(p) + 1) : SubSeq(s, i, i + Len(p) - 1) = p}

\* p in s
Contains(s, p) ==
    Occurrences(s, p) # {}

\* s.index(p), 1-based; only used where p occurs in s
Index(s, p) ==
    CHOOSE i \in Occurrences(s, p) : \A j \in Occurrences(s, p) : i <= j

IsSpace(c) ==
    c \in {" ", "\n", "\t", "\r"}

RECURSIVE LStrip(_)
LStrip(s) ==
    IF s # <<>> /\ IsSpace(Head(s)) THEN LStrip(Tail(s)) ELSE s

RECURSIVE RStrip(_)
RStrip(s) ==
    IF s # <<>> /\ IsSpace(s[Len(s)]) THEN RStrip(SubSeq(s, 1, Len(s) - 1)) ELSE s

\* str.strip()
Strip(s) ==
    RStrip(LStrip(s))

\* s[start:end] with 0-based, non-negative start and end (Python slice)
Slice(s, start, end) ==
    IF end <= start THEN <<>> ELSE SubSeq(s, start + 1, IF end > Len(s) THEN Len(s) ELSE end)

(***************************************************************************)
(* Markers, phrases and sample texts.                                       *)
(***************************************************************************)
BeginMarker ==
    <<"<","t","o","o","l","_","c","a","l","l",">">>

EndMarker ==
    <<"<","/","t","o","o","l","_","c","a","l","l",">">>

PhraseTaskComplete ==
    <<"t","a","s","k"," ","c","o","m","p","l","e","t","e">>

PhraseTaskIsComplete ==
    <<"t","a","s","k"," ","i","s"," ","c","o","m","p","l","e","t","e">>

PhraseFinishedTheTask ==
    <<"f","i","n","i","s","h","e","d"," ","t","h","e"," ","t","a","s","k">>

PhraseSuccessfullyCompleted ==
    <<"s","u","c","c","e","s","s","f","u","l","l","y"," ","c","o","m","p","l","e","t","e","d">>

PhraseAllDone ==
    <<"a","l","l"," ","d","o","n","e">>

PhraseComplete ==
    <<"c","o","m","p","l","e","t","e">>

PhraseDone ==
    <<"d","o","n","e">>

PhraseFinished ==
    <<"f","i","n","i","s","h","e","d">>

PhraseSuccessfully ==
    <<"s","u","c","c","e","s","s","f","u","l","l","y">>

PayloadRead ==
    <<"{","\"","t","o","o","l","\"",":","\"","r","\"","}">>

PayloadReadArgs ==
    <<"{","\"","t","o","o","l","\"",":","\"","r","\"",",","\"","a","r","g","u","m","e","n","t","s","\"",":","{","\"","p","\"",":","1","}","}">>

PayloadUnknown ==
    <<"{","\"","t","o","o","l","\"",":","\"","x","\"","}">>

PayloadToolNameArg ==
    <<"{","\"","t","o","o","l","\"",":","\"","r","\"",",","\"","a","r","g","u","m","e","n","t","s","\"",":","{","\"","t","o","o","l","_","n","a","m","e","\"",":","1","}","}">>

PayloadList ==
    <<"[","1","]">>

PayloadString ==
    <<"\"","s","\"">>

PayloadNumber ==
    <<"7">>

PayloadNoTool ==
    <<"{","\"","a","\"",":","1","}">>

PayloadBad ==
    <<"{","b","a","d">>

StrTaskComplete ==
    <<"T","a","s","k"," ","c","o","m","p","l","e","t","e",".">>

StrAllDone ==
    <<"A","L","L"," ","D","O","N","E">>

StrDone ==
    <<"d","o","n","e"," ">>

StrOk ==
    <<"o","k">>

StrFinished ==
    <<"F","i","n","i","s","h","e","d",".">>

StrOllamaError ==
    <<"E","r","r","o","r"," ","c","o","m","m","u","n","i","c","a","t","i","n","g"," ","w","i","t","h"," ","O","l","l","a","m","a",":"," ","x">>

\* the response texts the backend can produce, by text id
Texts ==
    << StrTaskComplete,
       StrAllDone \o BeginMarker \o PayloadRead \o EndMarker,
       BeginMarker \o PayloadRead \o EndMarker,
       StrDone \o BeginMarker \o <<" ">> \o PayloadReadArgs \o <<" ">> \o EndMarker,
       BeginMarker \o PayloadUnknown \o EndMarker,
       StrOk,
       StrFinished,
       BeginMarker \o PayloadToolNameArg \o EndMarker,
       BeginMarker \o PayloadList \o EndMarker,
       BeginMarker \o PayloadNoTool \o EndMarker,
       BeginMarker \o PayloadBad \o EndMarker,
       BeginMarker \o PayloadRead,
       StrOllamaError,
       BeginMarker \o PayloadUnknown \o EndMarker \o BeginMarker \o PayloadRead \o EndMarker >>

TextIds ==
    1..Len(Texts)

\* the id of the text OllamaLLM.generate returns when the request fails
OllamaErrorId ==
    CHOOSE i \in TextIds : Texts[i] = StrOllamaError

\* what the backend does with one request: it replies with a text, or the request fails
BackendReplies ==
    [kind : {"text"}, id : TextIds \ {OllamaErrorId}] \cup {[kind |-> "request_error", id |-> 0]}

\* the user's task strings
Tasks ==
    {"task_a", "task_b"}

(***************************************************************************)
(* json.loads on the payloads above; any other text is not valid JSON.     *)
(***************************************************************************)
JsonAbsent ==
    [kind |-> "absent", keys |-> {}]

JsonObject(keys) ==
    [kind |-> "object", keys |-> keys]

JsonLoads(s) ==
    CASE s = PayloadRead ->
           [kind |-> "object", keys |-> {"tool"}, tool |-> "r", arguments |-> JsonAbsent]
      [] s = PayloadReadArgs ->
           [kind |-> "object", keys |-> {"tool", "arguments"}, tool |-> "r",
            arguments |-> JsonObject({"p"})]
      [] s = PayloadUnknown ->
           [kind |-> "object", keys |-> {"tool"}, tool |-> "x", arguments |-> JsonAbsent]
      [] s = PayloadToolNameArg ->
           [kind |-> "object", keys |-> {"tool", "arguments"}, tool |-> "r",
            arguments |-> JsonObject({"tool_name"})]
      [] s = PayloadList ->
           [kind |-> "list", keys |-> {}, tool |-> "", arguments |-> JsonAbsent]
      [] s = PayloadString ->
           [kind |-> "string", keys |-> {}, tool |-> "", arguments |-> JsonAbsent]
      [] s = PayloadNumber ->
           [kind |-> "number", keys |-> {}, tool |-> "", arguments |-> JsonAbsent]
      [] s = PayloadNoTool ->
           [kind |-> "object", keys |-> {"a"}, tool |-> "", arguments |-> JsonAbsent]
      [] OTHER ->
           [kind |-> "invalid", keys |-> {}, tool |-> "", arguments |-> JsonAbsent]

(***************************************************************************)
(* src/llm/base.py                                                         *)
(***************************************************************************)
Message(role, content) ==
    [role |-> role, content |-> content]

ToolCall(id, name, arguments) ==
    [id |-> id, name |-> name, arguments |-> arguments]

\* tool_calls is None, or a list of ToolCall
NoToolCalls ==
    [is_none |-> TRUE, calls |-> <<>>]

LLMResponse(content, tool_calls, finish_reason) ==
    [content |-> content, tool_calls |-> tool_calls, finish_reason |-> finish_reason]

has_tool_calls(response) ==
    ~response.tool_calls.is_none /\ Len(response.tool_calls.calls) > 0

(***************************************************************************)
(* src/llm/ollama.py                                                       *)
(***************************************************************************)
\* the parser reading arguments with tool_data["arguments"]
ParseToolCallsRequiresArguments(response_text) ==
    IF Contains(response_text, BeginMarker) /\ Contains(response_text, EndMarker)
    THEN LET start     == (Index(response_text, BeginMarker) - 1) + Len(BeginMarker)
             end       == Index(response_text, EndMarker) - 1
             tool_json == Strip(Slice(response_text, start, end))
             tool_data == JsonLoads(tool_json)
         IN  CASE tool_data.kind = "invalid" ->
                    [raised |-> FALSE, tool_calls |-> NoToolCalls]
               [] tool_data.kind = "object" /\ {"tool", "arguments"} \subseteq tool_data.keys ->
                    [raised |-> FALSE,
                     tool_calls |->
                        [is_none |-> FALSE,
                         calls |-> << ToolCall(tool_json, tool_data.tool,
                                               tool_data.arguments) >>]]
               [] tool_data.kind = "object" ->
                    [raised |-> FALSE, tool_calls |-> NoToolCalls]
               [] OTHER ->
                    [raised |-> TRUE, tool_calls |-> NoToolCalls]
    ELSE [raised |-> FALSE, tool_calls |-> NoToolCalls]

\* the parser going on to a second block after the first
ParseToolCallsEveryBlock(response_text) ==
    IF Contains(response_text, BeginMarker) /\ Contains(response_text, EndMarker)
    THEN LET start     == (Index(response_text, BeginMarker) - 1) + Len(BeginMarker)
             end       == Index(response_text, EndMarker) - 1
             tool_json == Strip(Slice(response_text, start, end))
             tool_data == JsonLoads(tool_json)
             rest      == Slice(response_text, end + Len(EndMarker), Len(response_text))
             more      ==
                 IF Contains(rest, BeginMarker) /\ Contains(rest, EndMarker)
                 THEN LET json2 == Strip(Slice(rest,
                                               (Index(rest, BeginMarker) - 1) + Len(BeginMarker),
                                               Index(rest, EndMarker) - 1))
                          data2 == JsonLoads(json2)
                      IN  IF data2.kind = "object" /\ "tool" \in data2.keys
                          THEN << ToolCall(json2, data2.tool,
                                           IF "arguments" \in data2.keys
                                           THEN data2.arguments ELSE JsonObject({})) >>
                          ELSE <<>>
                 ELSE <<>>
         IN  CASE tool_data.kind = "invalid" ->
                    [raised |-> FALSE, tool_calls |-> NoToolCalls]
               [] tool_data.kind = "object" /\ "tool" \notin tool_data.keys ->
                    [raised |-> FALSE, tool_calls |-> NoToolCalls]
               [] tool_data.kind = "object" /\ "tool" \in tool_data.keys ->
                    [raised |-> FALSE,
                     tool_calls |->
                        [is_none |-> FALSE,
                         calls |-> << ToolCall(tool_json, tool_data.tool,
                                        IF "arguments" \in tool_data.keys
                                        THEN tool_data.arguments ELSE JsonObject({})) >>
                                   \o more]]
               [] OTHER ->
                    [raised |-> TRUE, tool_calls |-> NoToolCalls]
    ELSE [raised |-> FALSE, tool_calls |-> NoToolCalls]

\* raised: an exception other than ValueError, KeyError, JSONDecodeError left the parser
ParseToolCalls(response_text) ==
    IF Contains(response_text, BeginMarker) /\ Contains(response_text, EndMarker)
    THEN LET start     == (Index(response_text, BeginMarker) - 1) + Len(BeginMarker)
             end       == Index(response_text, EndMarker) - 1
             tool_json == Strip(Slice(response_text, start, end))
             tool_data == JsonLoads(tool_json)
         IN  CASE tool_data.kind = "invalid" ->
                    [raised |-> FALSE, tool_calls |-> NoToolCalls]
               [] tool_data.kind = "object" /\ "tool" \notin tool_data.keys ->
                    [raised |-> FALSE, tool_calls |-> NoToolCalls]
               [] tool_data.kind = "object" /\ "tool" \in tool_data.keys ->
                    [raised |-> FALSE,
                     tool_calls |->
                        [is_none |-> FALSE,
                         calls |-> << ToolCall(tool_json, tool_data.tool,
                                        IF "arguments" \in tool_data.keys
                                        THEN tool_data.arguments ELSE JsonObject({})) >>]]
               [] OTHER ->
                    [raised |-> TRUE, tool_calls |-> NoToolCalls]
    ELSE [raised |-> FALSE, tool_calls |-> NoToolCalls]

\* OllamaLLM.generate for one backend reply
Generate(reply) ==
    IF reply.kind = "request_error"
    THEN [raised |-> FALSE, response |-> LLMResponse(OllamaErrorId, NoToolCalls, "error")]
    ELSE LET parsed == ParseToolCalls(Texts[reply.id])
         IN  [raised |-> parsed.raised,
              response |-> LLMResponse(reply.id, parsed.tool_calls, "stop")]

(***************************************************************************)
(* src/cli/streaming_interface.py                                          *)
(***************************************************************************)
\* StreamingCLI._parse_tool_calls: the list it returns, whether it printed a warning,
\* and whether an exception other than the three it catches left it
StreamingParseToolCalls(response_text) ==
    IF ~Contains(response_text, BeginMarker)
    THEN [raised |-> FALSE, warned |-> FALSE, tool_calls |-> <<>>]
    ELSE IF ~Contains(response_text, EndMarker)
    THEN [raised |-> FALSE, warned |-> TRUE, tool_calls |-> <<>>]
    ELSE LET start     == (Index(response_text, BeginMarker) - 1) + Len(BeginMarker)
             end       == Index(response_text, EndMarker) - 1
             tool_json == Strip(Slice(response_text, start, end))
             tool_data == JsonLoads(tool_json)
         IN  CASE tool_data.kind = "invalid" ->
                    [raised |-> FALSE, warned |-> TRUE, tool_calls |-> <<>>]
               [] tool_data.kind = "object" /\ "tool" \notin tool_data.keys ->
                    [raised |-> FALSE, warned |-> TRUE, tool_calls |-> <<>>]
               [] tool_data.kind = "object" /\ "tool" \in tool_data.keys ->
                    [raised |-> FALSE, warned |-> FALSE,
                     tool_calls |->
                        << ToolCall(tool_json, tool_data.tool,
                                    IF "arguments" \in tool_data.keys
                                    THEN tool_data.arguments ELSE JsonObject({})) >>]
               [] OTHER ->
                    [raised |-> TRUE, warned |-> FALSE, tool_calls |-> <<>>]

(***************************************************************************)
(* src/tools/base.py, src/tools/registry.py                                *)
(***************************************************************************)
ToolResult(success, data, error) ==
    [success |-> success, data |-> data, error |-> error]

\* what a registered tool's execute(**kwargs) can do: return a successful result,
\* return a failed result, or raise
ToolOutcomes ==
    {"ok", "fail", "raise"}

\* the call execute(tool_name, **kwargs) binds: kwargs is a mapping and none of its
\* keys is the dispatcher's own parameter
BindsKwargs(arguments) ==
    arguments.kind = "object" /\ "tool_name" \notin arguments.keys

VARIABLES
    max_steps,             \* AgentController.max_steps
    max_tool_errors,       \* AgentController.max_tool_errors
    conversation_history,  \* AgentController.conversation_history
    step_count,            \* AgentController.step_count
    tool_error_count,      \* AgentController.tool_error_count
    is_task_complete,      \* AgentController.is_task_complete
    tools,                 \* ToolRegistry._tools: registered name -> tool
    execution_log,         \* ToolRegistry._execution_log
    pc,                    \* where execute_task is
    response,              \* the local `response` of execute_task
    tool_results,          \* the local `results` of _execute_tool_calls
    result,                \* what the last execute_task returned
    entry,                 \* the counters as the current run found them
    iterations,            \* loop iterations of the current run
    gateway_calls,         \* llm.generate calls of the current run
    dispatches,            \* tool_registry.execute calls of the current run
    failures,              \* dispatches of the current run that returned success = False
    parser_input,          \* the response text handed to a tool-call parser, by its parts
    parse_result,          \* what the parser did with it
    registry_calls,        \* ToolRegistry.execute calls made on the registry since clear_log
    registry_result,       \* what the last direct call on the registry did
    current_plan,          \* TaskPlanner.current_plan
    step_counter,          \* TaskPlanner.step_counter
    planner_result,        \* what the last call on the planner returned
    marked,                \* ids of the steps a mark_* call has changed
    step,                  \* the local `step` of _execute_task_streaming
    full_response,         \* the local `full_response` of _stream_llm_response
    stream,                \* what the backend still sends in the current stream
    received,              \* the fragments received in the current gateway turn
    blocking_run,          \* how execute_task ended on the inputs the streaming loop replays
    other,                 \* the second AgentController, while it is not the one running
    current                \* which of the two controllers the controller variables hold

vars ==
    << max_steps, max_tool_errors, conversation_history, step_count, tool_error_count,
       is_task_complete, tools, execution_log, pc, response, tool_results, result,
       entry, iterations, gateway_calls, dispatches, failures,
       parser_input, parse_result, registry_calls, registry_result,
       current_plan, step_counter, planner_result, marked,
       step, full_response, stream, received, blocking_run, other, current >>

\* the variables of the parser and of the registry used on their own
parser_vars ==
    << parser_input, parse_result >>

registry_vars ==
    << registry_calls, registry_result >>

\* the variables of the planner, of the streaming loop and of a second controller
planner_vars ==
    << current_plan, step_counter, planner_result, marked >>

stream_vars ==
    << step, full_response, stream, received, blocking_run >>

concurrent_vars ==
    << other, current >>

\* execute answering an unknown name without the registered names
RegistryExecuteOmitsNames(tool_name, kwargs, outcome) ==
    IF tool_name \notin DOMAIN tools
    THEN [result  |-> ToolResult(FALSE, "None", <<"not found", tool_name, {}>>),
          log     |-> execution_log,
          invoked |-> {}]
    ELSE LET tool_result ==
                 CASE outcome = "ok"   -> ToolResult(TRUE, "data", <<"None">>)
                   [] outcome = "fail" -> ToolResult(FALSE, "None", <<"tool error">>)
                   [] OTHER            -> ToolResult(FALSE, "None", <<"Tool execution failed">>)
         IN  [result  |-> tool_result,
              log     |-> Append(execution_log,
                                 [tool |-> tool_name, parameters |-> kwargs,
                                  result |-> tool_result]),
              invoked |-> {tools[tool_name]}]

\* ToolRegistry.execute: the result, the audit log after the call, the tool it ran
RegistryExecute(tool_name, kwargs, outcome) ==
    IF tool_name \notin DOMAIN tools
    THEN [result  |-> ToolResult(FALSE, "None", <<"not found", tool_name, DOMAIN tools>>),
          log     |-> execution_log,
          invoked |-> {}]
    ELSE LET tool_result ==
                 CASE outcome = "ok"   -> ToolResult(TRUE, "data", <<"None">>)
                   [] outcome = "fail" -> ToolResult(FALSE, "None", <<"tool error">>)
                   [] OTHER            -> ToolResult(FALSE, "None", <<"Tool execution failed">>)
         IN  [result  |-> tool_result,
              log     |-> Append(execution_log,
                                 [tool |-> tool_name, parameters |-> kwargs,
                                  result |-> tool_result]),
              invoked |-> {tools[tool_name]}]

(***************************************************************************)
(* src/agent/controller.py                                                 *)
(***************************************************************************)
StrictPhrases ==
    {PhraseTaskComplete, PhraseTaskIsComplete, PhraseFinishedTheTask,
     PhraseSuccessfullyCompleted, PhraseAllDone}

LoosePhrases ==
    {PhraseComplete, PhraseDone, PhraseFinished, PhraseSuccessfully}

\* AgentController._is_response_final
IsResponseFinalCaseSensitive(r) ==
    \E phrase \in StrictPhrases : Contains(Texts[r.content], phrase)

IsResponseFinal(r) ==
    LET content_lower == Lower(Texts[r.content])
    IN  \E phrase \in StrictPhrases : Contains(content_lower, phrase)

\* the check of execute_task on a response without tool calls
SeemsConclusiveCaseSensitive(r) ==
    \E phrase \in LoosePhrases : Contains(Texts[r.content], phrase)

SeemsConclusive(r) ==
    \E phrase \in LoosePhrases : Contains(Lower(Texts[r.content]), phrase)

\* the error counter after a dispatch returned tool_result
CountToolErrorAlways(count, tool_result) ==
    count + 1

CountToolError(count, tool_result) ==
    IF ~tool_result.success THEN count + 1 ELSE count

\* message contents: the task, a response text, or the formatted tool results
TaskContent(task) ==
    [kind |-> "task", task |-> task, text |-> 0, results |-> <<>>]

TextContent(id) ==
    [kind |-> "text", task |-> "", text |-> id, results |-> <<>>]

\* "Tool execution results:" followed by one entry per result
ResultsContent(results) ==
    [kind |-> "tool_results", task |-> "", text |-> 0,
     results |-> [i \in 1..Len(results) |->
                    [tool_name |-> results[i].tool_name,
                     line |-> IF results[i].result.success
                              THEN <<"Success", results[i].result.data>>
                              ELSE <<"Error", results[i].result.error>>]]]

\* the values execute_task returns, and an exception leaving it
NoResult ==
    [kind |-> "none", content |-> 0, n |-> 0]

ReturnContent(id) ==
    [kind |-> "content", content |-> id, n |-> 0]

ReturnAbortedErrors(n) ==
    [kind |-> "aborted_errors", content |-> 0, n |-> n]

ReturnStepLimit(n) ==
    [kind |-> "step_limit", content |-> 0, n |-> n]

ReturnTaskCompleted ==
    [kind |-> "task_completed", content |-> 0, n |-> 0]

Raised ==
    [kind |-> "exception", content |-> 0, n |-> 0]

NoResponse ==
    LLMResponse(0, NoToolCalls, "none")

NotRunning ==
    pc \in {"idle", "returned", "raised"}

RunState ==
    [step_count |-> step_count, tool_error_count |-> tool_error_count,
     is_task_complete |-> is_task_complete]

\* the dispatches the run about to start can still make
RemainingSteps ==
    IF step_count < max_steps /\ ~is_task_complete THEN max_steps - step_count ELSE 0

\* the tool every registry of the program starts with, by name
DefaultTools ==
    [name \in {"r"} |-> "read_tool"]

NoParserInput ==
    [kind |-> "none"]

NotParsed ==
    [parser |-> "none"]

NoRegistryResult ==
    [kind |-> "none"]

NoPlannerResult ==
    [kind |-> "none"]

NoStream ==
    <<>>

NoBlockingRun ==
    [kind |-> "none"]

NoOther ==
    [kind |-> "none"]

\* the planner, the streaming loop and the second controller out of use
SideInit ==
    /\ current_plan = <<>>
    /\ step_counter = 0
    /\ planner_result = NoPlannerResult
    /\ marked = {}
    /\ step = 0
    /\ full_response = <<>>
    /\ stream = NoStream
    /\ received = <<>>
    /\ blocking_run = NoBlockingRun
    /\ other = NoOther
    /\ current = 1

\* AgentController.__init__ on a registry holding the default tool
ControllerInit ==
    /\ max_steps \in 0..MaxStepsBound
    /\ max_tool_errors \in 0..MaxErrorsBound
    /\ conversation_history = <<>>
    /\ step_count = 0
    /\ tool_error_count = 0
    /\ is_task_complete = FALSE
    /\ tools = DefaultTools
    /\ execution_log = <<>>
    /\ pc = "idle"
    /\ response = NoResponse
    /\ tool_results = <<>>
    /\ result = NoResult
    /\ entry = [step_count |-> 0, tool_error_count |-> 0, is_task_complete |-> FALSE]
    /\ iterations = 0
    /\ gateway_calls = 0
    /\ dispatches = 0
    /\ failures = 0

Init ==
    /\ ControllerInit
    /\ parser_input = NoParserInput
    /\ parse_result = NotParsed
    /\ registry_calls = 0
    /\ registry_result = NoRegistryResult
    /\ SideInit

\* execute_task adding the task to the history it finds
ExecuteTaskKeepsHistory(user_request) ==
    /\ NotRunning
    /\ Len(execution_log) + RemainingSteps <= MaxLog
    /\ conversation_history' =
           Append(conversation_history, Message("user", TaskContent(user_request)))
    /\ pc' = "while"
    /\ response' = NoResponse
    /\ tool_results' = <<>>
    /\ result' = NoResult
    /\ entry' = RunState
    /\ iterations' = 0
    /\ gateway_calls' = 0
    /\ dispatches' = 0
    /\ failures' = 0
    /\ UNCHANGED << max_steps, max_tool_errors, step_count, tool_error_count,
                    is_task_complete, tools, execution_log >>
    /\ UNCHANGED << parser_vars, registry_vars >>
    /\ UNCHANGED << planner_vars, stream_vars, concurrent_vars >>

\* execute_task, up to the loop
ExecuteTask(user_request) ==
    /\ NotRunning
    /\ Len(execution_log) + RemainingSteps <= MaxLog
    /\ conversation_history' = << Message("user", TaskContent(user_request)) >>
    /\ pc' = "while"
    /\ response' = NoResponse
    /\ tool_results' = <<>>
    /\ result' = NoResult
    /\ entry' = RunState
    /\ iterations' = 0
    /\ gateway_calls' = 0
    /\ dispatches' = 0
    /\ failures' = 0
    /\ UNCHANGED << max_steps, max_tool_errors, step_count, tool_error_count,
                    is_task_complete, tools, execution_log >>
    /\ UNCHANGED << parser_vars, registry_vars >>
    /\ UNCHANGED << planner_vars, stream_vars, concurrent_vars >>

\* the condition of the while loop of execute_task
LoopConditionOffByOne ==
    ~is_task_complete /\ step_count <= max_steps

LoopCondition ==
    ~is_task_complete /\ step_count < max_steps

\* the check for too many errors at the top of the loop body
TooManyErrorsStrict ==
    tool_error_count > max_tool_errors

TooManyErrors ==
    tool_error_count >= max_tool_errors

\* the error check made before the step is counted
WhileTestChecksErrorsFirst ==
    /\ pc = "while"
    /\ IF LoopCondition
       THEN IF TooManyErrors
            THEN /\ pc' = "returned"
                 /\ result' = ReturnAbortedErrors(tool_error_count)
                 /\ UNCHANGED << step_count, iterations >>
            ELSE /\ step_count' = step_count + 1
                 /\ iterations' = iterations + 1
                 /\ pc' = "llm"
                 /\ result' = result
       ELSE /\ pc' = "returned"
            /\ result' = IF step_count >= max_steps
                         THEN ReturnStepLimit(max_steps)
                         ELSE ReturnTaskCompleted
            /\ UNCHANGED << step_count, iterations >>
    /\ UNCHANGED << max_steps, max_tool_errors, conversation_history, tool_error_count,
                    is_task_complete, tools, execution_log, response, tool_results,
                    entry, gateway_calls, dispatches, failures >>
    /\ UNCHANGED << parser_vars, registry_vars >>
    /\ UNCHANGED << planner_vars, stream_vars, concurrent_vars >>

\* the loop condition, the step counter and the error check; the returns after the loop
WhileTest ==
    /\ pc = "while"
    /\ IF LoopCondition
       THEN /\ step_count' = step_count + 1
            /\ iterations' = iterations + 1
            /\ IF TooManyErrors
               THEN /\ pc' = "returned"
                    /\ result' = ReturnAbortedErrors(tool_error_count)
               ELSE /\ pc' = "llm"
                    /\ result' = result
       ELSE /\ pc' = "returned"
            /\ result' = IF step_count >= max_steps
                         THEN ReturnStepLimit(max_steps)
                         ELSE ReturnTaskCompleted
            /\ UNCHANGED << step_count, iterations >>
    /\ UNCHANGED << max_steps, max_tool_errors, conversation_history, tool_error_count,
                    is_task_complete, tools, execution_log, response, tool_results,
                    entry, gateway_calls, dispatches, failures >>
    /\ UNCHANGED << parser_vars, registry_vars >>
    /\ UNCHANGED << planner_vars, stream_vars, concurrent_vars >>

\* the loop going round again after a failed request
GetLLMResponseRetriesOnError(reply) ==
    IF reply.kind = "request_error"
    THEN /\ pc = "llm"
         /\ gateway_calls' = gateway_calls + 1
         /\ response' = Generate(reply).response
         /\ pc' = "while"
         /\ tool_results' = <<>>
         /\ UNCHANGED << conversation_history, is_task_complete, result >>
         /\ UNCHANGED << max_steps, max_tool_errors, step_count, tool_error_count, tools,
                         execution_log, entry, iterations, dispatches, failures >>
         /\ UNCHANGED << parser_vars, registry_vars >>
         /\ UNCHANGED << planner_vars, stream_vars, concurrent_vars >>
    ELSE
         /\ pc = "llm"
         /\ gateway_calls' = gateway_calls + 1
         /\ LET g == Generate(reply)
                r == g.response
            IN  IF g.raised
                THEN /\ pc' = "raised"
                     /\ result' = Raised
                     /\ UNCHANGED << conversation_history, is_task_complete, response >>
                ELSE /\ conversation_history' =
                           Append(conversation_history, Message("assistant", TextContent(r.content)))
                     /\ response' = r
                     /\ IF IsResponseFinal(r)
                        THEN /\ is_task_complete' = TRUE
                             /\ result' = ReturnContent(r.content)
                             /\ pc' = "returned"
                        ELSE IF ~has_tool_calls(r)
                        THEN /\ is_task_complete' = (SeemsConclusive(r) \/ is_task_complete)
                             /\ result' = ReturnContent(r.content)
                             /\ pc' = "returned"
                        ELSE /\ is_task_complete' = is_task_complete
                             /\ result' = result
                             /\ pc' = "tools"
         /\ tool_results' = <<>>
         /\ UNCHANGED << max_steps, max_tool_errors, step_count, tool_error_count, tools,
                         execution_log, entry, iterations, dispatches, failures >>
         /\ UNCHANGED << parser_vars, registry_vars >>
         /\ UNCHANGED << planner_vars, stream_vars, concurrent_vars >>

\* _get_llm_response and the two completion checks
GetLLMResponse(reply) ==
    /\ pc = "llm"
    /\ gateway_calls' = gateway_calls + 1
    /\ LET g == Generate(reply)
           r == g.response
       IN  IF g.raised
           THEN /\ pc' = "raised"
                /\ result' = Raised
                /\ UNCHANGED << conversation_history, is_task_complete, response >>
           ELSE /\ conversation_history' =
                      Append(conversation_history, Message("assistant", TextContent(r.content)))
                /\ response' = r
                /\ IF IsResponseFinal(r)
                   THEN /\ is_task_complete' = TRUE
                        /\ result' = ReturnContent(r.content)
                        /\ pc' = "returned"
                   ELSE IF ~has_tool_calls(r)
                   THEN /\ is_task_complete' = (SeemsConclusive(r) \/ is_task_complete)
                        /\ result' = ReturnContent(r.content)
                        /\ pc' = "returned"
                   ELSE /\ is_task_complete' = is_task_complete
                        /\ result' = result
                        /\ pc' = "tools"
    /\ tool_results' = <<>>
    /\ UNCHANGED << max_steps, max_tool_errors, step_count, tool_error_count, tools,
                    execution_log, entry, iterations, dispatches, failures >>
    /\ UNCHANGED << parser_vars, registry_vars >>
    /\ UNCHANGED << planner_vars, stream_vars, concurrent_vars >>

\* one pass of the loop of _execute_tool_calls
ExecuteToolCall(outcome) ==
    /\ pc = "tools"
    /\ Len(tool_results) < Len(response.tool_calls.calls)
    /\ dispatches' = dispatches + 1
    /\ LET tool_call == response.tool_calls.calls[Len(tool_results) + 1]
       IN  IF ~BindsKwargs(tool_call.arguments)
           THEN /\ pc' = "raised"
                /\ result' = Raised
                /\ UNCHANGED << tool_error_count, tool_results, execution_log, failures >>
           ELSE LET ex == RegistryExecute(tool_call.name, tool_call.arguments, outcome)
                IN  /\ tool_error_count' = CountToolError(tool_error_count, ex.result)
                    /\ failures' = IF ~ex.result.success THEN failures + 1 ELSE failures
                    /\ tool_results' =
                           Append(tool_results,
                                  [tool_call_id |-> tool_call.id,
                                   tool_name |-> tool_call.name,
                                   result |-> ex.result])
                    /\ execution_log' = ex.log
                    /\ UNCHANGED << pc, result >>
    /\ UNCHANGED << max_steps, max_tool_errors, conversation_history, step_count,
                    is_task_complete, tools, response, entry, iterations, gateway_calls >>
    /\ UNCHANGED << parser_vars, registry_vars >>
    /\ UNCHANGED << planner_vars, stream_vars, concurrent_vars >>

\* the loop going on without the results message
AddToolResultsToHistoryDropsResults ==
    /\ pc = "tools"
    /\ Len(tool_results) = Len(response.tool_calls.calls)
    /\ pc' = "while"
    /\ UNCHANGED << max_steps, max_tool_errors, conversation_history, step_count,
                    tool_error_count, is_task_complete, tools, execution_log, response,
                    tool_results, result, entry, iterations, gateway_calls, dispatches,
                    failures, parser_vars, registry_vars >>
    /\ UNCHANGED << planner_vars, stream_vars, concurrent_vars >>

\* the results stored under a role of their own
AddToolResultsToHistoryAsToolRole ==
    /\ pc = "tools"
    /\ Len(tool_results) = Len(response.tool_calls.calls)
    /\ conversation_history' =
           Append(conversation_history, Message("tool", ResultsContent(tool_results)))
    /\ pc' = "while"
    /\ UNCHANGED << max_steps, max_tool_errors, step_count, tool_error_count,
                    is_task_complete, tools, execution_log, response, tool_results, result,
                    entry, iterations, gateway_calls, dispatches, failures >>
    /\ UNCHANGED << parser_vars, registry_vars >>
    /\ UNCHANGED << planner_vars, stream_vars, concurrent_vars >>

\* _add_tool_results_to_history, and back to the loop condition
AddToolResultsToHistory ==
    /\ pc = "tools"
    /\ Len(tool_results) = Len(response.tool_calls.calls)
    /\ conversation_history' =
           Append(conversation_history, Message("user", ResultsContent(tool_results)))
    /\ pc' = "while"
    /\ UNCHANGED << max_steps, max_tool_errors, step_count, tool_error_count,
                    is_task_complete, tools, execution_log, response, tool_results, result,
                    entry, iterations, gateway_calls, dispatches, failures >>
    /\ UNCHANGED << parser_vars, registry_vars >>
    /\ UNCHANGED << planner_vars, stream_vars, concurrent_vars >>

\* AgentController.reset
Reset ==
    /\ NotRunning
    /\ conversation_history' = <<>>
    /\ step_count' = 0
    /\ tool_error_count' = 0
    /\ is_task_complete' = FALSE
    /\ pc' = "idle"
    /\ result' = NoResult
    /\ response' = NoResponse
    /\ tool_results' = <<>>
    /\ entry' = [step_count |-> 0, tool_error_count |-> 0, is_task_complete |-> FALSE]
    /\ iterations' = 0
    /\ gateway_calls' = 0
    /\ dispatches' = 0
    /\ failures' = 0
    /\ UNCHANGED << max_steps, max_tool_errors, tools, execution_log >>
    /\ UNCHANGED << parser_vars, registry_vars >>
    /\ UNCHANGED << planner_vars, stream_vars, concurrent_vars >>

Next ==
    \/ \E user_request \in Tasks : ExecuteTask(user_request)
    \/ WhileTest
    \/ \E reply \in BackendReplies : GetLLMResponse(reply)
    \/ \E outcome \in ToolOutcomes : ExecuteToolCall(outcome)
    \/ AddToolResultsToHistory
    \/ Reset

Spec ==
    Init /\ [][Next]_vars

(***************************************************************************)
(* The sample texts by what they hold, read off the texts themselves.      *)
(***************************************************************************)
\* texts whose lowercased content holds a strict phrase (the second also holds a tool call)
StrictTextIds ==
    {1, 2}

\* texts without a strict phrase that hold a tool call the parser returns
ToolCallTextIds ==
    {3, 4, 5, 8, 14}

\* texts without a strict phrase for which the parser returns no tool call
PlainTextIds ==
    {6, 7, 10, 11, 12, 13}

\* the plain texts whose lowercased content holds a loose phrase
LoosePlainTextIds ==
    {7}

AssistantMessages ==
    {i \in 1..Len(conversation_history) : conversation_history[i].role = "assistant"}

ToolResultMessages ==
    {i \in 1..Len(conversation_history) :
        conversation_history[i].content.kind = "tool_results"}

\* the tool results the conversation holds
ResultsInHistory ==
    Cardinality(ToolResultMessages)

(***************************************************************************)
(* C1: every call of execute_task starts its run with step_count = 0,      *)
(* tool_error_count = 0 and is_task_complete = false, whatever an earlier  *)
(* run on the same instance left behind.                                   *)
(***************************************************************************)
C1_RunStartsFromResetState ==
    (pc = "while" /\ iterations = 0) =>
        (step_count = 0 /\ tool_error_count = 0 /\ is_task_complete = FALSE)

(***************************************************************************)
(* C2: a run in which at least max_tool_errors dispatches fail ends with   *)
(* the too-many-tool-errors result and step_count <= max_steps.  Stated    *)
(* for the runs on a fresh or reset instance in which a dispatch did fail. *)
(***************************************************************************)
C2_EnoughFailuresAbortOnErrors ==
    ( /\ pc = "returned"
      /\ entry.step_count = 0
      /\ failures >= 1
      /\ failures >= max_tool_errors )
    => (result.kind = "aborted_errors" /\ step_count <= max_steps)

(***************************************************************************)
(* C3: at an iteration boundary where tool_error_count >= max_tool_errors  *)
(* and step_count >= max_steps both hold, the last step's dispatch having  *)
(* failed, the run returns the too-many-tool-errors result.                *)
(***************************************************************************)
C3_ErrorAbortWinsAtBoundary ==
    [][ ( /\ pc = "while"
          /\ failures >= 1
          /\ tool_error_count >= max_tool_errors
          /\ step_count >= max_steps )
        => (pc' = "returned" /\ result'.kind = "aborted_errors") ]_vars

C6_StepLimitAfterMaxSteps ==
    /\ iterations <= max_steps
    /\ gateway_calls <= max_steps
    /\ ( /\ pc \in {"returned", "raised"}
         /\ Cardinality(AssistantMessages) = max_steps
         /\ \A i \in AssistantMessages :
               conversation_history[i].content.text \in ToolCallTextIds
         /\ failures < max_tool_errors )
       => result.kind = "step_limit"

(***************************************************************************)
(* C7: a response whose lowercased content holds a strict phrase ends the  *)
(* run in that iteration: the result is the content, is_task_complete is   *)
(* true, and a tool call in the same response is not dispatched.           *)
(***************************************************************************)
C7_StrictPhraseCompletes ==
    [][ (pc = "llm" /\ pc' # "raised" /\ response'.content \in StrictTextIds)
        => ( /\ pc' = "returned"
             /\ result' = ReturnContent(response'.content)
             /\ is_task_complete' = TRUE
             /\ step_count' = step_count
             /\ dispatches' = dispatches
             /\ execution_log' = execution_log
             /\ tool_error_count' = tool_error_count ) ]_vars

C7_Witness ==
    /\ pc = "returned"
    /\ response.content = 2
    /\ has_tool_calls(response)
    /\ result = ReturnContent(2)
    /\ is_task_complete
    /\ iterations = 2
    /\ dispatches = 1

(***************************************************************************)
(* C8: a response without a strict phrase and without a tool call ends the *)
(* run in that iteration with the content as result; is_task_complete      *)
(* becomes true exactly when the content holds a loose phrase.  A response *)
(* with a tool call goes to the dispatch without the loose check.          *)
(***************************************************************************)
C8_NoToolCallLeavesLoop ==
    [][ (pc = "llm" /\ pc' # "raised")
        => /\ response'.content \in PlainTextIds
                => ( /\ pc' = "returned"
                     /\ result' = ReturnContent(response'.content)
                     /\ is_task_complete' = (response'.content \in LoosePlainTextIds)
                     /\ step_count' = step_count
                     /\ dispatches' = dispatches )
           /\ response'.content \in ToolCallTextIds
                => ( /\ pc' = "tools"
                     /\ result' = NoResult
                     /\ is_task_complete' = FALSE ) ]_vars

C8_Witness ==
    /\ pc = "returned"
    /\ response.content = 7
    /\ result = ReturnContent(7)
    /\ is_task_complete
    /\ iterations = 2

(***************************************************************************)
(* C9: every tool call the loop dispatches has produced exactly one        *)
(* ToolResult, which is in the conversation before the next gateway call:  *)
(* outside _execute_tool_calls the conversation holds one result per       *)
(* dispatch of the run.                                                    *)
(***************************************************************************)
C9_OneResultPerDispatch ==
    /\ pc = "tools" => dispatches = ResultsInHistory + Len(tool_results)
    /\ pc # "tools" => dispatches = ResultsInHistory

(***************************************************************************)
(* C10: a dispatch that returns success = false adds exactly 1 to          *)
(* tool_error_count and one that returns success = true adds nothing; the  *)
(* error text is appended to the conversation in the result message and    *)
(* the run goes on.                                                        *)
(***************************************************************************)
C10_ToolErrorCountedAndFedBack ==
    [][ /\ (dispatches' = dispatches + 1 /\ pc' # "raised")
           => LET r == tool_results'[Len(tool_results')].result
              IN  /\ Len(tool_results') = Len(tool_results) + 1
                  /\ tool_error_count' = tool_error_count + (IF r.success THEN 0 ELSE 1)
                  /\ pc' = "tools"
                  /\ result' = NoResult
        /\ (pc = "tools" /\ pc' = "while")
           => LET m == conversation_history'[Len(conversation_history')]
              IN  /\ Len(conversation_history') = Len(conversation_history) + 1
                  /\ m.role = "user"
                  /\ m.content.kind = "tool_results"
                  /\ Len(m.content.results) = Len(tool_results)
                  /\ \A i \in 1..Len(tool_results) :
                        ~tool_results[i].result.success =>
                            m.content.results[i].line =
                                <<"Error", tool_results[i].result.error>>
                  /\ result' = NoResult ]_vars

C10_Witness ==
    /\ pc = "while"
    /\ failures = 1
    /\ tool_error_count = 1
    /\ result = NoResult
    /\ Len(conversation_history) = 3
    /\ conversation_history[3].content.results[1].line[1] = "Error"

(***************************************************************************)
(* C11: the value execute_task returns is the content of the last gateway  *)
(* response of that run or one of the two fixed abort messages, on a fresh *)
(* and on a reused instance.                                               *)
(***************************************************************************)
C11_ResultIsContentOrAbortMessage ==
    pc = "returned" =>
        \/ /\ result.kind = "content"
           /\ gateway_calls >= 1
           /\ result.content = response.content
           /\ conversation_history[Len(conversation_history)] =
                  Message("assistant", TextContent(result.content))
        \/ result.kind = "aborted_errors"
        \/ result.kind = "step_limit"

(***************************************************************************)
(* C12: when execute_task has returned, is_task_complete is never true     *)
(* together with the error-abort or the step-limit result.                 *)
(***************************************************************************)
C12_CompleteFlagAgreesWithStatus ==
    (pc = "returned" /\ result.kind \in {"aborted_errors", "step_limit"})
        => is_task_complete = FALSE


(***************************************************************************)
(* The two tool-call parsers on their own: a response text is drawn, then  *)
(* OllamaLLM._parse_tool_calls or StreamingCLI._parse_tool_calls reads it. *)
(***************************************************************************)
ParserPrefixes ==
    {<<>>, StrOk, EndMarker}

ParserPayloads ==
    {PayloadRead, PayloadReadArgs, PayloadUnknown, PayloadToolNameArg, PayloadList,
     PayloadString, PayloadNumber, PayloadNoTool, PayloadBad}

ParserPads ==
    {<<>>, <<" ">>}

ParserSuffixes ==
    {<<>>, BeginMarker \o PayloadRead \o EndMarker}

\* a response text by its parts: prefix, begin marker, padded payload, end marker, suffix
ParserInputs ==
    [kind : {"text"}, prefix : ParserPrefixes, begin : BOOLEAN, payload : ParserPayloads,
     pad : ParserPads, end : BOOLEAN, suffix : ParserSuffixes]

ResponseText(input) ==
    input.prefix \o (IF input.begin THEN BeginMarker ELSE <<>>)
                 \o input.pad \o input.payload \o input.pad
                 \o (IF input.end THEN EndMarker ELSE <<>>) \o input.suffix

ParserInit ==
    /\ ControllerInit
    /\ max_steps = 0
    /\ max_tool_errors = 0
    /\ registry_calls = 0
    /\ registry_result = NoRegistryResult
    /\ parser_input \in ParserInputs
    /\ parse_result = NotParsed
    /\ SideInit

\* OllamaLLM._parse_tool_calls on the text; an exception it swallows is passed over silently
OllamaParse ==
    /\ parse_result = NotParsed
    /\ LET parsed == ParseToolCalls(ResponseText(parser_input))
       IN  parse_result' = [parser |-> "ollama", raised |-> parsed.raised, warned |-> FALSE,
                            calls |-> parsed.tool_calls.calls]
    /\ UNCHANGED << max_steps, max_tool_errors, conversation_history, step_count,
                    tool_error_count, is_task_complete, tools, execution_log, pc, response,
                    tool_results, result, entry, iterations, gateway_calls, dispatches,
                    failures, parser_input, registry_vars >>
    /\ UNCHANGED << planner_vars, stream_vars, concurrent_vars >>

\* StreamingCLI._parse_tool_calls on the text
StreamingParse ==
    /\ parse_result = NotParsed
    /\ LET parsed == StreamingParseToolCalls(ResponseText(parser_input))
       IN  parse_result' = [parser |-> "streaming", raised |-> parsed.raised,
                            warned |-> parsed.warned, calls |-> parsed.tool_calls]
    /\ UNCHANGED << max_steps, max_tool_errors, conversation_history, step_count,
                    tool_error_count, is_task_complete, tools, execution_log, pc, response,
                    tool_results, result, entry, iterations, gateway_calls, dispatches,
                    failures, parser_input, registry_vars >>
    /\ UNCHANGED << planner_vars, stream_vars, concurrent_vars >>

ParserNext ==
    \/ OllamaParse
    \/ StreamingParse

ParserSpec ==
    ParserInit /\ [][ParserNext]_vars

Parsed ==
    parse_result # NotParsed

\* the inputs of C13, read off the parts: one complete block whose payload is an object
\* with a name, text without any marker, text with a begin marker and no end marker
WellFormedPayloads ==
    {PayloadRead, PayloadReadArgs, PayloadUnknown, PayloadToolNameArg}

WellFormedBlock ==
    /\ parser_input.begin /\ parser_input.end
    /\ parser_input.prefix # EndMarker
    /\ parser_input.payload \in WellFormedPayloads

NoMarkers ==
    /\ ~parser_input.begin /\ ~parser_input.end
    /\ parser_input.prefix # EndMarker /\ parser_input.suffix = <<>>

BeginWithoutEnd ==
    /\ parser_input.begin /\ ~parser_input.end
    /\ parser_input.prefix # EndMarker /\ parser_input.suffix = <<>>

\* the name and the argument keys written in each well-formed payload
PayloadName ==
    [p \in WellFormedPayloads |-> IF p = PayloadUnknown THEN "x" ELSE "r"]

PayloadArgumentKeys ==
    [p \in WellFormedPayloads |->
        CASE p = PayloadReadArgs -> {"p"}
          [] p = PayloadToolNameArg -> {"tool_name"}
          [] OTHER -> {}]

\* C13: either parser returns exactly one call with the payload's name and arguments
\* (an empty mapping when the payload has none) for a well-formed block, and returns no
\* call, without raising, for text without markers and for text with a begin marker
\* and no end marker.
C13_ParserContract ==
    Parsed =>
        /\ WellFormedBlock =>
              /\ ~parse_result.raised
              /\ Len(parse_result.calls) = 1
              /\ parse_result.calls[1].name = PayloadName[parser_input.payload]
              /\ parse_result.calls[1].arguments =
                     [kind |-> "object", keys |-> PayloadArgumentKeys[parser_input.payload]]
        /\ (NoMarkers \/ BeginWithoutEnd) =>
              /\ ~parse_result.raised
              /\ parse_result.calls = <<>>

C13_Witness ==
    /\ parse_result # NotParsed
    /\ parse_result.parser = "ollama"
    /\ WellFormedBlock
    /\ parser_input.payload = PayloadRead
    /\ parse_result.calls[1].arguments = [kind |-> "object", keys |-> {}]


\* payloads that are not parseable or lack the name field
MalformedPayloads ==
    {PayloadBad, PayloadList, PayloadString, PayloadNumber, PayloadNoTool}

MalformedBlock ==
    /\ parser_input.begin /\ parser_input.end
    /\ parser_input.prefix # EndMarker
    /\ parser_input.payload \in MalformedPayloads

\* C14: for a text that holds the markers around a payload that is invalid JSON, a JSON
\* value that is not an object, or an object without the "tool" key, the parser returns
\* no call, surfaces a warning, and raises nothing.
C14_MalformedPayloadDegrades ==
    (Parsed /\ MalformedBlock) =>
        /\ ~parse_result.raised
        /\ parse_result.calls = <<>>
        /\ parse_result.warned


\* the text after the first begin marker, and the text between that marker and the next
\* end marker after it
AfterFirstBegin(s) ==
    Slice(s, (Index(s, BeginMarker) - 1) + Len(BeginMarker), Len(s))

HasCandidatePayload(s) ==
    Contains(s, BeginMarker) /\ Contains(AfterFirstBegin(s), EndMarker)

CandidatePayload(s) ==
    Slice(AfterFirstBegin(s), 0, Index(AfterFirstBegin(s), EndMarker) - 1)

\* C15: for every response text, one with an end marker before the first begin marker
\* included, the parser's result is that of parsing exactly the text between the first
\* begin marker and the next end marker after it.
C15_ParsesFirstBeginToNextEnd ==
    (Parsed /\ HasCandidatePayload(ResponseText(parser_input))) =>
        LET block == BeginMarker \o CandidatePayload(ResponseText(parser_input)) \o EndMarker
        IN  IF parse_result.parser = "ollama"
            THEN /\ parse_result.raised = ParseToolCalls(block).raised
                 /\ parse_result.calls = ParseToolCalls(block).tool_calls.calls
            ELSE /\ parse_result.raised = StreamingParseToolCalls(block).raised
                 /\ parse_result.calls = StreamingParseToolCalls(block).tool_calls


\* the text with two complete blocks, the first naming the unregistered tool x
TwoBlocksTextId ==
    CHOOSE i \in TextIds :
        Texts[i] = BeginMarker \o PayloadUnknown \o EndMarker \o BeginMarker \o PayloadRead \o EndMarker

\* C16: a response yields at most one tool call, the first block's when it holds several,
\* so a run never makes more registry dispatches than loop iterations and never adds
\* more failures to tool_error_count than loop iterations.
C16_AtMostOneCallPerResponse ==
    /\ Len(response.tool_calls.calls) <= 1
    /\ response.content = TwoBlocksTextId =>
           /\ Len(response.tool_calls.calls) = 1
           /\ response.tool_calls.calls[1].name = "x"
    /\ dispatches <= iterations
    /\ failures <= iterations
    /\ tool_error_count - entry.tool_error_count <= iterations

C16_Witness ==
    /\ response.content = TwoBlocksTextId
    /\ pc = "while"
    /\ dispatches = 1
    /\ tool_error_count = entry.tool_error_count + 1


(***************************************************************************)
(* The ToolRegistry on its own: register, execute and clear_log called     *)
(* directly on a registry that starts empty.                               *)
(***************************************************************************)
\* direct execute calls between two clear_log calls
MaxCalls ==
    2

\* tool objects by their name attribute; two of them carry the same name
ToolName ==
    [tool \in {"read_tool", "other_read_tool", "write_tool"} |->
        IF tool = "write_tool" THEN "w" ELSE "r"]

ToolObjects ==
    DOMAIN ToolName

\* the names execute is called with: two that tools carry, one that no tool carries
CalledNames ==
    {"r", "w", "x"}

\* the keyword arguments of a direct call
CalledKwargs ==
    {JsonObject({}), JsonObject({"p"})}

RegistryInit ==
    /\ max_steps = 0
    /\ max_tool_errors = 0
    /\ conversation_history = <<>>
    /\ step_count = 0
    /\ tool_error_count = 0
    /\ is_task_complete = FALSE
    /\ tools = [name \in {} |-> "read_tool"]
    /\ execution_log = <<>>
    /\ pc = "idle"
    /\ response = NoResponse
    /\ tool_results = <<>>
    /\ result = NoResult
    /\ entry = [step_count |-> 0, tool_error_count |-> 0, is_task_complete |-> FALSE]
    /\ iterations = 0
    /\ gateway_calls = 0
    /\ dispatches = 0
    /\ failures = 0
    /\ parser_input = NoParserInput
    /\ parse_result = NotParsed
    /\ registry_calls = 0
    /\ registry_result = NoRegistryResult
    /\ SideInit

\* register binding the name again
RegisterOverwrites(tool) ==
    /\ tools' = [name \in DOMAIN tools \cup {ToolName[tool]} |->
                    IF name = ToolName[tool] THEN tool ELSE tools[name]]
    /\ registry_result' = [kind |-> "registered", tool |-> tool]
    /\ UNCHANGED << max_steps, max_tool_errors, conversation_history, step_count,
                    tool_error_count, is_task_complete, execution_log, pc, response,
                    tool_results, result, entry, iterations, gateway_calls, dispatches,
                    failures, parser_vars, registry_calls >>
    /\ UNCHANGED << planner_vars, stream_vars, concurrent_vars >>

\* ToolRegistry.register
Register(tool) ==
    /\ IF ToolName[tool] \in DOMAIN tools
       THEN /\ registry_result' = [kind |-> "raised", tool |-> tool]
            /\ tools' = tools
       ELSE /\ tools' = [name \in DOMAIN tools \cup {ToolName[tool]} |->
                            IF name = ToolName[tool] THEN tool ELSE tools[name]]
            /\ registry_result' = [kind |-> "registered", tool |-> tool]
    /\ UNCHANGED << max_steps, max_tool_errors, conversation_history, step_count,
                    tool_error_count, is_task_complete, execution_log, pc, response,
                    tool_results, result, entry, iterations, gateway_calls, dispatches,
                    failures, parser_vars, registry_calls >>
    /\ UNCHANGED << planner_vars, stream_vars, concurrent_vars >>

\* the lists register_all is called with hold at most MaxListLen tools
MaxListLen ==
    2

ToolLists ==
    UNION {[1..n -> ToolObjects] : n \in 0..MaxListLen}

\* the loop of register_all over the list, started on the bindings registered: the
\* bindings it leaves, and whether a register call raised
RECURSIVE RegisterEach(_, _)
RegisterEach(registered, list) ==
    IF list = <<>>
    THEN [tools |-> registered, raised |-> FALSE]
    ELSE IF ToolName[Head(list)] \in DOMAIN registered
    THEN [tools |-> registered, raised |-> TRUE]
    ELSE RegisterEach([name \in DOMAIN registered \cup {ToolName[Head(list)]} |->
                          IF name = ToolName[Head(list)] THEN Head(list)
                          ELSE registered[name]],
                      Tail(list))

\* register_all undoing its registrations when one fails
RegisterAllAtomic(list) ==
    /\ LET done == RegisterEach(tools, list)
       IN  /\ tools' = IF done.raised THEN tools ELSE done.tools
           /\ registry_result' = [kind |-> IF done.raised THEN "raised_all"
                                           ELSE "registered_all",
                                  list |-> list]
    /\ UNCHANGED << max_steps, max_tool_errors, conversation_history, step_count,
                    tool_error_count, is_task_complete, execution_log, pc, response,
                    tool_results, result, entry, iterations, gateway_calls, dispatches,
                    failures, parser_vars, registry_calls >>
    /\ UNCHANGED << planner_vars, stream_vars, concurrent_vars >>

\* ToolRegistry.register_all
RegisterAll(list) ==
    /\ LET done == RegisterEach(tools, list)
       IN  /\ tools' = done.tools
           /\ registry_result' = [kind |-> IF done.raised THEN "raised_all"
                                           ELSE "registered_all",
                                  list |-> list]
    /\ UNCHANGED << max_steps, max_tool_errors, conversation_history, step_count,
                    tool_error_count, is_task_complete, execution_log, pc, response,
                    tool_results, result, entry, iterations, gateway_calls, dispatches,
                    failures, parser_vars, registry_calls >>
    /\ UNCHANGED << planner_vars, stream_vars, concurrent_vars >>

\* ToolRegistry.execute called directly
Execute(tool_name, kwargs, outcome) ==
    /\ registry_calls < MaxCalls
    /\ registry_calls' = registry_calls + 1
    /\ LET ex == RegistryExecute(tool_name, kwargs, outcome)
       IN  /\ execution_log' = ex.log
           /\ registry_result' = [kind |-> "result", tool_name |-> tool_name,
                                  kwargs |-> kwargs, result |-> ex.result,
                                  invoked |-> ex.invoked]
    /\ UNCHANGED << max_steps, max_tool_errors, conversation_history, step_count,
                    tool_error_count, is_task_complete, tools, pc, response,
                    tool_results, result, entry, iterations, gateway_calls, dispatches,
                    failures, parser_vars >>
    /\ UNCHANGED << planner_vars, stream_vars, concurrent_vars >>

\* ToolRegistry.clear_log
ClearLog ==
    /\ execution_log' = <<>>
    /\ registry_calls' = 0
    /\ registry_result' = [kind |-> "cleared"]
    /\ UNCHANGED << max_steps, max_tool_errors, conversation_history, step_count,
                    tool_error_count, is_task_complete, tools, pc, response,
                    tool_results, result, entry, iterations, gateway_calls, dispatches,
                    failures, parser_vars >>
    /\ UNCHANGED << planner_vars, stream_vars, concurrent_vars >>

RegistryNext ==
    \/ \E tool \in ToolObjects : Register(tool)
    \/ \E list \in ToolLists : RegisterAll(list)
    \/ \E tool_name \in CalledNames, kwargs \in CalledKwargs, outcome \in ToolOutcomes :
           Execute(tool_name, kwargs, outcome)
    \/ ClearLog

RegistrySpec ==
    RegistryInit /\ [][RegistryNext]_vars


\* C17: execute with a name that is not registered returns, without raising and without
\* running any tool, a ToolResult with success = false whose error lists the names
\* registered at the time of the call.
C17_UnknownNameReturnsFailure ==
    [][ ( /\ registry_calls' = registry_calls + 1
          /\ registry_result'.tool_name \notin DOMAIN tools )
        => /\ registry_result'.kind = "result"
           /\ registry_result'.result.success = FALSE
           /\ registry_result'.result.error =
                  <<"not found", registry_result'.tool_name, DOMAIN tools>>
           /\ registry_result'.invoked = {}
           /\ tools' = tools ]_vars

C17_Witness ==
    /\ registry_result.kind = "result"
    /\ registry_result.tool_name = "x"
    /\ registry_result.result = ToolResult(FALSE, "None", <<"not found", "x", {"r", "w"}>>)
    /\ registry_result.invoked = {}


\* C18: a dispatch made by the controller never raises: whatever arguments the parsed
\* call carries (a key named tool_name included) and whatever the tool does, the call
\* returns a ToolResult, which is a failure with an error description unless the tool
\* returned a successful result.
C18_DispatchNeverRaises ==
    [][ (dispatches' = dispatches + 1)
        => /\ pc' # "raised"
           /\ Len(tool_results') = Len(tool_results) + 1
           /\ LET tool_result == tool_results'[Len(tool_results')].result
              IN  tool_result.success \/ tool_result.error # <<"None">> ]_vars


\* C19: register with a name that is already present fails and leaves the registry as it
\* was, the tool registered first still bound to the name; with a new name it binds the
\* tool and changes no other binding.
C19_RegisterKeepsNamesUnique ==
    [][ ( /\ registry_result' # registry_result
          /\ registry_result'.kind \in {"registered", "raised"} )
        => LET tool == registry_result'.tool
           IN  IF ToolName[tool] \in DOMAIN tools
               THEN /\ registry_result'.kind = "raised"
                    /\ tools' = tools
               ELSE /\ registry_result'.kind = "registered"
                    /\ DOMAIN tools' = DOMAIN tools \cup {ToolName[tool]}
                    /\ tools'[ToolName[tool]] = tool
                    /\ \A name \in DOMAIN tools : tools'[name] = tools[name] ]_vars

C19_Witness ==
    /\ registry_result = [kind |-> "raised", tool |-> "other_read_tool"]
    /\ "r" \in DOMAIN tools
    /\ tools["r"] = "read_tool"

\* C20: every execute call appends exactly one entry (name, arguments, result) to the
\* audit log, an unknown name included, so the log is as long as the number of execute
\* calls since the last clear_log and ends with the last call's entry.
C20_EveryExecuteCallIsLogged ==
    /\ Len(execution_log) = registry_calls
    /\ (registry_result.kind = "result" /\ execution_log # <<>>) =>
           execution_log[Len(execution_log)] =
               [tool |-> registry_result.tool_name, parameters |-> registry_result.kwargs,
                result |-> registry_result.result]


\* C23: a backend communication failure is neither retried nor raised: the gateway call
\* that fails is the only one of its iteration, the error text is appended as an
\* ordinary assistant message, and the run returns that text in the same iteration,
\* through the checks every response goes through, with tool_error_count unchanged.
C23_GatewayErrorIsOrdinaryText ==
    [][ (pc = "llm" /\ pc' # "llm" /\ response'.finish_reason = "error")
        => /\ gateway_calls' = gateway_calls + 1
           /\ gateway_calls' <= iterations'
           /\ iterations' = iterations
           /\ conversation_history' =
                  Append(conversation_history,
                         Message("assistant", TextContent(OllamaErrorId)))
           /\ pc' = "returned"
           /\ result' = ReturnContent(OllamaErrorId)
           /\ is_task_complete' = is_task_complete
           /\ tool_error_count' = tool_error_count ]_vars

C23_Witness ==
    /\ pc = "returned"
    /\ response.finish_reason = "error"
    /\ result = ReturnContent(OllamaErrorId)
    /\ gateway_calls = 2


\* the counters as a fresh or reset instance holds them
FreshEntry ==
    entry = [step_count |-> 0, tool_error_count |-> 0, is_task_complete |-> FALSE]

\* C24: on a fresh instance, a run whose first k gateway responses each carried a tool
\* call that was dispatched successfully and whose response k + 1 holds a strict
\* completion phrase ends completed with that response's content, step_count = k + 1,
\* tool_error_count = 0 and 2k + 2 messages in the conversation (k + 1 gateway calls).
C24_ToolCallsThenCompletion ==
    ( /\ pc = "returned"
      /\ FreshEntry
      /\ result.kind = "content"
      /\ result.content \in StrictTextIds
      /\ dispatches = gateway_calls - 1
      /\ failures = 0 )
    => /\ is_task_complete
       /\ result.content = response.content
       /\ step_count = gateway_calls
       /\ step_count <= max_steps
       /\ tool_error_count = 0
       /\ Len(conversation_history) = 2 * gateway_calls

C24_Witness ==
    /\ pc = "returned"
    /\ FreshEntry
    /\ result.kind = "content"
    /\ result.content \in StrictTextIds
    /\ gateway_calls = 2
    /\ dispatches = 1
    /\ failures = 0
    /\ step_count = 2
    /\ Len(conversation_history) = 4


\* C25: execute_task replaces the history with the single user message holding the
\* task, reset empties it, and every other step of a run leaves the messages it finds
\* in place and appends at most one at the end.
C25_HistoryGrowsByAppend ==
    [][ IF NotRunning /\ pc' = "while"
        THEN /\ Len(conversation_history') = 1
             /\ conversation_history'[1].role = "user"
             /\ conversation_history'[1].content.kind = "task"
        ELSE IF NotRunning /\ pc' = "idle"
        THEN conversation_history' = <<>>
        ELSE /\ Len(conversation_history') \in
                    {Len(conversation_history), Len(conversation_history) + 1}
             /\ SubSeq(conversation_history', 1, Len(conversation_history)) =
                    conversation_history ]_vars

C25_Witness ==
    /\ pc = "while"
    /\ ~FreshEntry
    /\ Len(conversation_history) = 3
    /\ conversation_history[1].content.kind = "task"


\* C27: the stored conversation alternates roles starting with user: the first message
\* is the task, every second message from the second on is an assistant message, every
\* other later message is a tool-result message with role user; no system message is
\* stored, and a gateway call is made only with a history that ends in a user message.
C27_RolesAlternate ==
    /\ \A i \in 1..Len(conversation_history) :
          LET m == conversation_history[i]
          IN  /\ m.role \in {"user", "assistant"}
              /\ (i = 1) => (m.role = "user" /\ m.content.kind = "task")
              /\ (i % 2 = 0) => (m.role = "assistant" /\ m.content.kind = "text")
              /\ (i > 1 /\ i % 2 = 1) =>
                     (m.role = "user" /\ m.content.kind = "tool_results")
    /\ pc = "llm" =>
          /\ conversation_history # <<>>
          /\ conversation_history[Len(conversation_history)].role = "user"

C27_Witness ==
    /\ pc = "llm"
    /\ Len(conversation_history) = 3
    /\ conversation_history[2].role = "assistant"
    /\ conversation_history[3].content.kind = "tool_results"


Offending(registered, list) ==
    {i \in 1..Len(list) :
        \/ ToolName[list[i]] \in DOMAIN registered
        \/ \E j \in 1..(i - 1) : ToolName[list[j]] = ToolName[list[i]]}

FirstOffending(registered, list) ==
    CHOOSE i \in Offending(registered, list) :
        \A j \in Offending(registered, list) : i <= j

\* C29: register_all is not atomic: when the list holds a tool whose name is registered
\* already or occurs earlier in the list, the call fails, the tools before the first
\* such tool are registered, that tool and the tools after it are not, and the
\* bindings made before the call are untouched; without such a tool all are registered.
C29_RegisterAllStopsAtDuplicate ==
    [][ ( /\ registry_result' # registry_result
          /\ registry_result'.kind \in {"registered_all", "raised_all"} )
        => LET list   == registry_result'.list
               before == IF Offending(tools, list) = {} THEN Len(list)
                         ELSE FirstOffending(tools, list) - 1
           IN  /\ registry_result'.kind =
                     IF Offending(tools, list) = {} THEN "registered_all" ELSE "raised_all"
               /\ DOMAIN tools' = DOMAIN tools \cup {ToolName[list[i]] : i \in 1..before}
               /\ \A i \in 1..before : tools'[ToolName[list[i]]] = list[i]
               /\ \A name \in DOMAIN tools : tools'[name] = tools[name] ]_vars

C29_Witness ==
    /\ registry_result = [kind |-> "raised_all", list |-> <<"write_tool", "other_read_tool">>]
    /\ DOMAIN tools = {"r", "w"}
    /\ tools["r"] = "read_tool"
    /\ tools["w"] = "write_tool"
    /\ execution_log = <<>>


(***************************************************************************)
(* src/agent/planner.py: the TaskPlanner on its own.                       *)
(***************************************************************************)
\* step ids are handed out up to MaxStepIds
MaxStepIds ==
    2

controller_vars ==
    << max_steps, max_tool_errors, conversation_history, step_count, tool_error_count,
       is_task_complete, tools, execution_log, pc, response, tool_results, result,
       entry, iterations, gateway_calls, dispatches, failures >>

WordRead ==
    <<"r","e","a","d">>

WordFind ==
    <<"f","i","n","d">>

WordWrite ==
    <<"w","r","i","t","e">>

WordCreate ==
    <<"c","r","e","a","t","e">>

WordTest ==
    <<"t","e","s","t">>

WordRun ==
    <<"r","u","n">>

ReasoningReadWrite ==
    <<"R","e","a","d"," ","i","t",","," ","t","h","e","n"," ","w","r","i","t","e",".">>

ReasoningRunTests ==
    <<"R","U","N"," ","T","H","E"," ","T","E","S","T","S">>

ReasoningHello ==
    <<"h","e","l","l","o">>

\* the reasoning texts create_plan_from_llm_response is called with
Reasonings ==
    {ReasoningReadWrite, ReasoningRunTests, ReasoningHello}

PlanStep(id, tool, status) ==
    [id |-> id, tool |-> tool, status |-> status, result |-> "None", error |-> "None"]

\* the tools of the steps create_plan_from_llm_response makes for a reasoning text
PlannedTools(llm_reasoning) ==
    LET lower  == Lower(llm_reasoning)
        search == IF Contains(lower, WordRead) \/ Contains(lower, WordFind)
                  THEN <<"search_files">> ELSE <<>>
        write  == IF Contains(lower, WordWrite) \/ Contains(lower, WordCreate)
                  THEN <<"write_file">> ELSE <<>>
        run    == IF Contains(lower, WordTest) \/ Contains(lower, WordRun)
                  THEN <<"run_shell">> ELSE <<>>
    IN  IF search \o write \o run = <<>> THEN <<"None">> ELSE search \o write \o run

\* the position of the first step that is not completed
FirstNotCompleted(plan) ==
    IF \E i \in 1..Len(plan) : plan[i].status # "completed"
    THEN CHOOSE i \in 1..Len(plan) :
            /\ plan[i].status # "completed"
            /\ \A j \in 1..(i - 1) : plan[j].status = "completed"
    ELSE 0

\* the loop of get_next_step: the position of the first pending step, 0 when it ends
FirstPending(plan) ==
    IF \E i \in 1..Len(plan) : plan[i].status = "pending"
    THEN CHOOSE i \in 1..Len(plan) :
            /\ plan[i].status = "pending"
            /\ \A j \in 1..(i - 1) : plan[j].status # "pending"
    ELSE 0

\* _get_step_by_id: the position of the first step with the id, 0 for None
GetStepById(plan, step_id) ==
    IF \E i \in 1..Len(plan) : plan[i].id = step_id
    THEN CHOOSE i \in 1..Len(plan) :
            /\ plan[i].id = step_id
            /\ \A j \in 1..(i - 1) : plan[j].id # step_id
    ELSE 0

PlannerInit ==
    /\ ControllerInit
    /\ max_steps = 0
    /\ max_tool_errors = 0
    /\ parser_input = NoParserInput
    /\ parse_result = NotParsed
    /\ registry_calls = 0
    /\ registry_result = NoRegistryResult
    /\ SideInit

\* TaskPlanner.create_plan_from_llm_response
CreatePlanFromLLMResponse(llm_reasoning) ==
    LET planned == PlannedTools(llm_reasoning)
    IN  /\ step_counter + Len(planned) <= MaxStepIds
        /\ step_counter' = step_counter + Len(planned)
        /\ current_plan' = [i \in 1..Len(planned) |->
                               PlanStep(step_counter + i, planned[i], "pending")]
        /\ planner_result' = [kind |-> "plan", steps |-> current_plan']
        /\ UNCHANGED marked
        /\ UNCHANGED << controller_vars, parser_vars, registry_vars, stream_vars,
                        concurrent_vars >>

\* TaskPlanner.add_step
AddStep(tool) ==
    /\ step_counter < MaxStepIds
    /\ step_counter' = step_counter + 1
    /\ current_plan' = Append(current_plan, PlanStep(step_counter + 1, tool, "pending"))
    /\ planner_result' = [kind |-> "added", step |-> PlanStep(step_counter + 1, tool, "pending")]
    /\ UNCHANGED marked
    /\ UNCHANGED << controller_vars, parser_vars, registry_vars, stream_vars,
                    concurrent_vars >>

\* TaskPlanner.get_next_step
GetNextStep ==
    /\ planner_result' =
           IF FirstPending(current_plan) = 0
           THEN [kind |-> "next_step", is_none |-> TRUE, step |-> PlanStep(0, "None", "none")]
           ELSE [kind |-> "next_step", is_none |-> FALSE,
                 step |-> current_plan[FirstPending(current_plan)]]
    /\ UNCHANGED << current_plan, step_counter, marked >>
    /\ UNCHANGED << controller_vars, parser_vars, registry_vars, stream_vars,
                    concurrent_vars >>

\* the three mark_* methods: the step found by id gets the status and the result or error
MarkStep(step_id, status, step_result, error) ==
    LET i == GetStepById(current_plan, step_id)
    IN  /\ IF i = 0
           THEN UNCHANGED << current_plan, marked >>
           ELSE /\ current_plan' =
                       [current_plan EXCEPT ![i] =
                           [@ EXCEPT !.status = status,
                                     !.result = IF status = "completed" THEN step_result ELSE @,
                                     !.error  = IF status = "failed" THEN error ELSE @]]
                /\ marked' = marked \cup {step_id}
        /\ planner_result' = [kind |-> "marked", step_id |-> step_id, status |-> status]
        /\ UNCHANGED step_counter
        /\ UNCHANGED << controller_vars, parser_vars, registry_vars, stream_vars,
                        concurrent_vars >>

\* TaskPlanner.mark_step_in_progress
MarkStepInProgress(step_id) ==
    MarkStep(step_id, "in_progress", "None", "None")

\* TaskPlanner.mark_step_completed
MarkStepCompleted(step_id) ==
    MarkStep(step_id, "completed", "res", "None")

\* TaskPlanner.mark_step_failed
MarkStepFailed(step_id) ==
    MarkStep(step_id, "failed", "None", "err")

\* TaskPlanner.clear_plan
ClearPlan ==
    /\ current_plan' = <<>>
    /\ planner_result' = [kind |-> "cleared"]
    /\ UNCHANGED << step_counter, marked >>
    /\ UNCHANGED << controller_vars, parser_vars, registry_vars, stream_vars,
                    concurrent_vars >>

PlannerNext ==
    \/ \E llm_reasoning \in Reasonings : CreatePlanFromLLMResponse(llm_reasoning)
    \/ \E tool \in {"None", "read_file"} : AddStep(tool)
    \/ GetNextStep
    \/ \E step_id \in 1..(MaxStepIds + 1) : MarkStepInProgress(step_id)
    \/ \E step_id \in 1..(MaxStepIds + 1) : MarkStepCompleted(step_id)
    \/ \E step_id \in 1..(MaxStepIds + 1) : MarkStepFailed(step_id)
    \/ ClearPlan

PlannerSpec ==
    PlannerInit /\ [][PlannerNext]_vars

\* the pending steps of a plan, by position
PendingPositions(plan) ==
    {i \in 1..Len(plan) : plan[i].status = "pending"}

\* C30: get_next_step returns the earliest step of the current plan whose status is
\* pending, and None exactly when no step is pending; it never returns a step that a
\* mark_* call has changed; a mark_* call with an id that no step of the current plan
\* carries leaves every step as it was.
C30_NextStepIsEarliestPending ==
    [][ /\ planner_result'.kind = "next_step" =>
              /\ planner_result'.is_none <=> (PendingPositions(current_plan') = {})
              /\ ~planner_result'.is_none =>
                    /\ \E i \in PendingPositions(current_plan') :
                          /\ planner_result'.step = current_plan'[i]
                          /\ \A j \in PendingPositions(current_plan') : i <= j
                    /\ planner_result'.step.id \notin marked'
        /\ ( /\ planner_result'.kind = "marked"
             /\ \A i \in 1..Len(current_plan) : current_plan[i].id # planner_result'.step_id )
           => current_plan' = current_plan ]_vars

C30_Witness ==
    /\ planner_result.kind = "next_step"
    /\ ~planner_result.is_none
    /\ planner_result.step.id = 2
    /\ 1 \in marked
    /\ Len(current_plan) = 2
    /\ current_plan[1].status = "failed"


(***************************************************************************)
(* src/cli/streaming_interface.py: _execute_task_streaming on the agent,   *)
(* on its own or after execute_task has run on a fresh agent with the same *)
(* budgets, whose response texts and tool results it is then fed.          *)
(***************************************************************************)
StrStreamError ==
    <<"[","E","r","r","o","r",":"," ","x","]">>

\* what generate_stream meets on the connection: a line carrying a fragment, a line
\* that is not JSON, a failure of the request
Fragment(chunk) ==
    [kind |-> "fragment", chunk |-> chunk]

BadLine ==
    [kind |-> "bad_line", chunk |-> <<>>]

RequestError ==
    [kind |-> "request_error", chunk |-> <<>>]

\* a text sent whole or in two fragments
StreamsOf(id) ==
    LET text == Texts[id]
        half == Len(text) \div 2
    IN  { << Fragment(text) >>,
          << Fragment(SubSeq(text, 1, half)), Fragment(SubSeq(text, half + 1, Len(text))) >> }

\* a stream that breaks off after the first fragment, or before any
BrokenStreams ==
    { << RequestError >>, << BadLine >> }
    \cup UNION { { << s[1], RequestError >>, << s[1], BadLine >> } :
                 s \in UNION { StreamsOf(id) : id \in TextIds \ {OllamaErrorId} } }

Streams ==
    UNION { StreamsOf(id) : id \in TextIds \ {OllamaErrorId} } \cup BrokenStreams

\* the assistant messages and the tool-result messages execute_task left, in order
TapeTexts(history) ==
    [k \in 1..(Len(history) \div 2) |-> history[2 * k].content.text]

TapeResults(history) ==
    [k \in 1..((Len(history) - 1) \div 2) |-> history[2 * k + 1].content.results]

\* the streams that carry the text of gateway call k of the blocking run; any stream
\* when the blocking run made fewer calls or none was made
ReplayStreams(k) ==
    IF blocking_run = NoBlockingRun \/ k > Len(TapeTexts(blocking_run.history))
    THEN Streams
    ELSE IF TapeTexts(blocking_run.history)[k] = OllamaErrorId
    THEN { << RequestError >> }
    ELSE StreamsOf(TapeTexts(blocking_run.history)[k])

\* what the tool did in dispatch k of the blocking run
ReplayOutcomes(k) ==
    IF blocking_run = NoBlockingRun \/ k > Len(TapeResults(blocking_run.history))
    THEN ToolOutcomes
    ELSE LET line == TapeResults(blocking_run.history)[k][1].line
         IN  CASE line = <<"Success", "data">>                  -> {"ok"}
               [] line = <<"Error", <<"tool error">>>>            -> {"fail"}
               [] line = <<"Error", <<"Tool execution failed">>>> -> {"raise"}
               [] OTHER                                           -> ToolOutcomes

StreamedContent(chars) ==
    [kind |-> "streamed", task |-> "", text |-> chars, results |-> <<>>]

\* "Tool results:" followed by one entry per result
StreamResultsContent(results) ==
    [kind |-> "stream_tool_results", task |-> "", text |-> 0,
     results |-> [i \in 1..Len(results) |->
                    [tool_name |-> results[i].tool_name,
                     line |-> IF results[i].result.success
                              THEN <<results[i].result.data>>
                              ELSE <<"Error", results[i].result.error>>]]]

ConclusivePhrases ==
    {PhraseTaskComplete, PhraseFinished, PhraseDone, PhraseSuccessfullyCompleted}

\* StreamingCLI._is_conclusive
IsConclusive(text) ==
    \E phrase \in ConclusivePhrases : Contains(Lower(text), phrase)

StreamInit ==
    /\ ControllerInit
    /\ parser_input = NoParserInput
    /\ parse_result = NotParsed
    /\ registry_calls = 0
    /\ registry_result = NoRegistryResult
    /\ SideInit

\* execute_task called once on the fresh agent
BlockingStart(user_request) ==
    /\ pc = "idle"
    /\ blocking_run = NoBlockingRun
    /\ ExecuteTask(user_request)

\* the blocking run is over: how it ended is kept, and a fresh agent with the same
\* budgets and a fresh registry with the same tools take its place
Handover ==
    /\ pc = "returned"
    /\ blocking_run = NoBlockingRun
    /\ blocking_run' = [kind |-> "run", status |-> result.kind,
                        gateway_calls |-> gateway_calls, step_count |-> step_count,
                        tool_error_count |-> tool_error_count,
                        is_task_complete |-> is_task_complete,
                        history |-> conversation_history]
    /\ conversation_history' = <<>>
    /\ step_count' = 0
    /\ tool_error_count' = 0
    /\ is_task_complete' = FALSE
    /\ execution_log' = <<>>
    /\ pc' = "idle"
    /\ response' = NoResponse
    /\ tool_results' = <<>>
    /\ result' = NoResult
    /\ iterations' = 0
    /\ gateway_calls' = 0
    /\ dispatches' = 0
    /\ failures' = 0
    /\ UNCHANGED << max_steps, max_tool_errors, tools, entry, step, full_response, stream,
                    received >>
    /\ UNCHANGED << parser_vars, registry_vars, planner_vars, concurrent_vars >>

\* _execute_task_streaming, up to the loop
ExecuteTaskStreaming(task) ==
    /\ pc = "idle"
    /\ conversation_history' = << Message("user", TaskContent(task)) >>
    /\ step' = 0
    /\ pc' = "s_while"
    /\ UNCHANGED << max_steps, max_tool_errors, step_count, tool_error_count,
                    is_task_complete, tools, execution_log, response, tool_results, result,
                    entry, iterations, gateway_calls, dispatches, failures,
                    full_response, stream, received, blocking_run >>
    /\ UNCHANGED << parser_vars, registry_vars, planner_vars, concurrent_vars >>

\* the condition of the streaming loop and its step counter; the report after the loop
StreamWhileTest ==
    /\ pc = "s_while"
    /\ IF ~is_task_complete /\ step < max_steps
       THEN /\ step' = step + 1
            /\ iterations' = iterations + 1
            /\ pc' = "s_open"
            /\ result' = result
       ELSE /\ pc' = "s_done"
            /\ result' = [kind |-> IF is_task_complete THEN "stream_completed"
                                   ELSE "stream_incomplete",
                          content |-> 0, n |-> 0]
            /\ UNCHANGED << step, iterations >>
    /\ UNCHANGED << max_steps, max_tool_errors, conversation_history, step_count,
                    tool_error_count, is_task_complete, tools, execution_log, response,
                    tool_results, entry, gateway_calls, dispatches, failures,
                    full_response, stream, received, blocking_run >>
    /\ UNCHANGED << parser_vars, registry_vars, planner_vars, concurrent_vars >>

\* _stream_llm_response calls generate_stream
StreamOpen(s) ==
    /\ pc = "s_open"
    /\ s \in ReplayStreams(gateway_calls + 1)
    /\ gateway_calls' = gateway_calls + 1
    /\ stream' = s
    /\ full_response' = <<>>
    /\ received' = <<>>
    /\ pc' = "s_recv"
    /\ UNCHANGED << max_steps, max_tool_errors, conversation_history, step_count,
                    tool_error_count, is_task_complete, tools, execution_log, response,
                    tool_results, result, entry, iterations, dispatches, failures,
                    step, blocking_run >>
    /\ UNCHANGED << parser_vars, registry_vars, planner_vars, concurrent_vars >>

\* what the loop does with the text _stream_llm_response returned: parse, then leave
\* the loop without tool calls or go on to the tools
AfterStream(response_text) ==
    LET parsed == StreamingParseToolCalls(response_text)
    IN  /\ response' = LLMResponse(response_text,
                                   [is_none |-> FALSE, calls |-> parsed.tool_calls], "stream")
        /\ tool_results' = <<>>
        /\ IF parsed.raised
           THEN /\ pc' = "raised"
                /\ result' = Raised
                /\ UNCHANGED is_task_complete
           ELSE IF parsed.tool_calls = <<>>
           THEN /\ is_task_complete' = (IsConclusive(response_text) \/ is_task_complete)
                /\ pc' = "s_done"
                /\ result' = [kind |-> IF is_task_complete' THEN "stream_completed"
                                       ELSE "stream_incomplete",
                              content |-> 0, n |-> 0]
           ELSE /\ pc' = "s_tools"
                /\ UNCHANGED << is_task_complete, result >>

\* one fragment arrives; a failed request arrives as an error fragment that ends the
\* stream; a line that is not JSON raises, and _stream_llm_response returns ""
StreamReceive ==
    /\ pc = "s_recv"
    /\ stream # <<>>
    /\ IF Head(stream).kind = "bad_line"
       THEN /\ stream' = <<>>
            /\ AfterStream(<<>>)
            /\ UNCHANGED << conversation_history, full_response, received >>
       ELSE LET chunk == IF Head(stream).kind = "request_error"
                         THEN StrStreamError ELSE Head(stream).chunk
            IN  /\ full_response' = full_response \o chunk
                /\ received' = Append(received, chunk)
                /\ stream' = IF Head(stream).kind = "request_error" THEN <<>>
                             ELSE Tail(stream)
                /\ UNCHANGED << conversation_history, is_task_complete, pc, response,
                                tool_results, result >>
    /\ UNCHANGED << max_steps, max_tool_errors, step_count, tool_error_count, tools,
                    execution_log, entry, iterations, gateway_calls, dispatches, failures,
                    step, blocking_run >>
    /\ UNCHANGED << parser_vars, registry_vars, planner_vars, concurrent_vars >>

\* the stream has ended: the full response is appended and returned
StreamEnd ==
    /\ pc = "s_recv"
    /\ stream = <<>>
    /\ conversation_history' =
           Append(conversation_history, Message("assistant", StreamedContent(full_response)))
    /\ AfterStream(full_response)
    /\ UNCHANGED << max_steps, max_tool_errors, step_count, tool_error_count, tools,
                    execution_log, entry, iterations, gateway_calls, dispatches, failures,
                    step, full_response, stream, received, blocking_run >>
    /\ UNCHANGED << parser_vars, registry_vars, planner_vars, concurrent_vars >>

\* one pass of the loop of _execute_tools
StreamExecuteTool(outcome) ==
    /\ pc = "s_tools"
    /\ Len(tool_results) < Len(response.tool_calls.calls)
    /\ outcome \in ReplayOutcomes(gateway_calls)
    /\ dispatches' = dispatches + 1
    /\ LET tool_call == response.tool_calls.calls[Len(tool_results) + 1]
       IN  IF ~BindsKwargs(tool_call.arguments)
           THEN /\ pc' = "raised"
                /\ result' = Raised
                /\ UNCHANGED << tool_results, execution_log, failures >>
           ELSE LET ex == RegistryExecute(tool_call.name, tool_call.arguments, outcome)
                IN  /\ failures' = IF ~ex.result.success THEN failures + 1 ELSE failures
                    /\ tool_results' =
                           Append(tool_results,
                                  [tool_call_id |-> tool_call.id,
                                   tool_name |-> tool_call.name,
                                   result |-> ex.result])
                    /\ execution_log' = ex.log
                    /\ UNCHANGED << pc, result >>
    /\ UNCHANGED << max_steps, max_tool_errors, conversation_history, step_count,
                    tool_error_count, is_task_complete, tools, response, entry, iterations,
                    gateway_calls, step, full_response, stream, received, blocking_run >>
    /\ UNCHANGED << parser_vars, registry_vars, planner_vars, concurrent_vars >>

\* _add_results_to_history, and back to the loop condition
StreamAddResultsToHistory ==
    /\ pc = "s_tools"
    /\ Len(tool_results) = Len(response.tool_calls.calls)
    /\ conversation_history' =
           Append(conversation_history, Message("user", StreamResultsContent(tool_results)))
    /\ pc' = "s_while"
    /\ UNCHANGED << max_steps, max_tool_errors, step_count, tool_error_count,
                    is_task_complete, tools, execution_log, response, tool_results, result,
                    entry, iterations, gateway_calls, dispatches, failures,
                    step, full_response, stream, received, blocking_run >>
    /\ UNCHANGED << parser_vars, registry_vars, planner_vars, concurrent_vars >>

StreamNext ==
    \/ \E user_request \in Tasks : BlockingStart(user_request)
    \/ WhileTest
    \/ \E reply \in BackendReplies : GetLLMResponse(reply)
    \/ \E outcome \in ToolOutcomes : ExecuteToolCall(outcome)
    \/ AddToolResultsToHistory
    \/ Handover
    \/ \E task \in Tasks : ExecuteTaskStreaming(task)
    \/ StreamWhileTest
    \/ \E s \in Streams : StreamOpen(s)
    \/ StreamReceive
    \/ StreamEnd
    \/ \E outcome \in ToolOutcomes : StreamExecuteTool(outcome)
    \/ StreamAddResultsToHistory

StreamSpec ==
    StreamInit /\ [][StreamNext]_vars


(***************************************************************************)
(* Claims about the streaming loop                                         *)
(***************************************************************************)
RECURSIVE Concatenation(_)
Concatenation(chunks) ==
    IF chunks = <<>> THEN <<>> ELSE Head(chunks) \o Concatenation(Tail(chunks))

\* C21: in streaming mode no message is appended while fragments are still arriving,
\* and when the gateway turn ends the conversation history has grown by exactly one
\* assistant message whose content is the concatenation of the fragments received
\* in that turn
C21_OneAssistantMessagePerTurn ==
    [][ pc = "s_recv" =>
          IF pc' = "s_recv"
          THEN conversation_history' = conversation_history
          ELSE conversation_history' =
                   Append(conversation_history,
                          Message("assistant", StreamedContent(Concatenation(received)))) ]_vars

\* C22: when the streaming loop stops after being fed the response texts and tool
\* results of a blocking run with the same budgets, it has made as many gateway calls
\* and leaves the same step_count, tool_error_count and is_task_complete, and it
\* reports completion exactly when the blocking run did
C22_StreamingMatchesBlocking ==
    (pc = "s_done" /\ blocking_run # NoBlockingRun) =>
        /\ gateway_calls = blocking_run.gateway_calls
        /\ step_count = blocking_run.step_count
        /\ tool_error_count = blocking_run.tool_error_count
        /\ is_task_complete = blocking_run.is_task_complete
        /\ (result.kind = "stream_completed") = blocking_run.is_task_complete


(***************************************************************************)
(* Two AgentController instances that share one ToolRegistry, their runs   *)
(* interleaved. The controller variables hold the instance that is running *)
(* now and `other' the one that is suspended; tools and execution_log      *)
(* belong to the registry both were given.                                 *)
(***************************************************************************)
\* the attributes and the position of the instance that is running now
Suspended ==
    [kind |-> "controller",
     max_steps |-> max_steps, max_tool_errors |-> max_tool_errors,
     conversation_history |-> conversation_history, step_count |-> step_count,
     tool_error_count |-> tool_error_count, is_task_complete |-> is_task_complete,
     pc |-> pc, response |-> response, tool_results |-> tool_results, result |-> result,
     entry |-> entry, iterations |-> iterations, gateway_calls |-> gateway_calls,
     dispatches |-> dispatches, failures |-> failures]

\* AgentController.__init__ of the second instance
FreshController(steps, errors) ==
    [kind |-> "controller",
     max_steps |-> steps, max_tool_errors |-> errors,
     conversation_history |-> <<>>, step_count |-> 0,
     tool_error_count |-> 0, is_task_complete |-> FALSE,
     pc |-> "idle", response |-> NoResponse, tool_results |-> <<>>, result |-> NoResult,
     entry |-> [step_count |-> 0, tool_error_count |-> 0, is_task_complete |-> FALSE],
     iterations |-> 0, gateway_calls |-> 0, dispatches |-> 0, failures |-> 0]

\* the step and error budget both instances are constructed with
ConcurrentBudget ==
    1

ConcurrentInit ==
    /\ max_steps = ConcurrentBudget
    /\ max_tool_errors = ConcurrentBudget
    /\ conversation_history = <<>>
    /\ step_count = 0
    /\ tool_error_count = 0
    /\ is_task_complete = FALSE
    /\ tools = DefaultTools
    /\ execution_log = <<>>
    /\ pc = "idle"
    /\ response = NoResponse
    /\ tool_results = <<>>
    /\ result = NoResult
    /\ entry = [step_count |-> 0, tool_error_count |-> 0, is_task_complete |-> FALSE]
    /\ iterations = 0
    /\ gateway_calls = 0
    /\ dispatches = 0
    /\ failures = 0
    /\ parser_input = NoParserInput
    /\ parse_result = NotParsed
    /\ registry_calls = 0
    /\ registry_result = NoRegistryResult
    /\ current_plan = <<>>
    /\ step_counter = 0
    /\ planner_result = NoPlannerResult
    /\ marked = {}
    /\ step = 0
    /\ full_response = <<>>
    /\ stream = NoStream
    /\ received = <<>>
    /\ blocking_run = NoBlockingRun
    /\ other = FreshController(ConcurrentBudget, ConcurrentBudget)
    /\ current = 1

\* execute_task called once on the instance that is running now
StartRun(user_request) ==
    /\ pc = "idle"
    /\ ExecuteTask(user_request)

\* the scheduler suspends the running instance and resumes the other
Switch ==
    /\ other # NoOther
    /\ other' = Suspended
    /\ max_steps' = other.max_steps
    /\ max_tool_errors' = other.max_tool_errors
    /\ conversation_history' = other.conversation_history
    /\ step_count' = other.step_count
    /\ tool_error_count' = other.tool_error_count
    /\ is_task_complete' = other.is_task_complete
    /\ pc' = other.pc
    /\ response' = other.response
    /\ tool_results' = other.tool_results
    /\ result' = other.result
    /\ entry' = other.entry
    /\ iterations' = other.iterations
    /\ gateway_calls' = other.gateway_calls
    /\ dispatches' = other.dispatches
    /\ failures' = other.failures
    /\ current' = IF current = 1 THEN 2 ELSE 1
    /\ UNCHANGED << tools, execution_log >>
    /\ UNCHANGED << parser_vars, registry_vars, planner_vars, stream_vars >>

ConcurrentNext ==
    \/ \E user_request \in Tasks : StartRun(user_request)
    \/ WhileTest
    \/ \E reply \in BackendReplies : GetLLMResponse(reply)
    \/ \E outcome \in ToolOutcomes : ExecuteToolCall(outcome)
    \/ AddToolResultsToHistory
    \/ Switch

ConcurrentSpec ==
    ConcurrentInit /\ [][ConcurrentNext]_vars

\* C26: a step of one run leaves the other instance's step_count, tool_error_count,
\* is_task_complete and conversation as they were, and the shared audit log holds one
\* entry for every dispatch of both runs
C26_RunsPrivateAndLogComplete ==
    [][ /\ current' = current => other' = other
        /\ Len(execution_log') = dispatches' + other'.dispatches ]_vars

====
